---- MODULE Spec2Model ----
(***************************************************************************)
(* MERNPro dental clinic: the patient routes and the attachment store.     *)
(*                                                                         *)
(* The repository carries the patient router in three versions (disk       *)
(* storage with list/delete routes, disk storage with the upload route     *)
(* only, memory storage with a size cap) and the Patient schema in two     *)
(* shapes (attachments with a `filename`, attachments with inline `data`). *)
(* Which router is mounted, which schema is compiled and which Mongoose    *)
(* is installed is fixed at start-up; the model draws them in Init.        *)
(*                                                                         *)
(* A route handler is one action per stretch between its awaits: the       *)
(* upload handler runs up to `await Patient.findById`, from there to       *)
(* `await patient.save()`, and from there to the response, and the         *)
(* handlers of several requests interleave at these points.  A controller  *)
(* that does one database operation is one action.  The fire-and-forget    *)
(* fs.unlink started by the delete handler completes in an action of its   *)
(* own (UnlinkDone).                                                       *)
(*                                                                         *)
(* Spec, SpecGate, SpecCap and SpecAppointments are the server with        *)
(* Mongoose sending array changes as $push / $pull.  SpecRace is the       *)
(* server under a persistence layer that writes the whole array back.      *)
(* SpecDash and SpecModal are the Dashboard page: its state, its event     *)
(* handlers, and its async handlers resuming when the API answers.         *)
(***************************************************************************)
EXTENDS Integers, Sequences, FiniteSets, TLC

(* ------------------------------ bounds -------------------------------- *)
MaxPatients == 1
MaxAttachments == 2
MaxTime == 1
\* fs.unlink calls in flight at one time
MaxUnlinks == 2
\* requests whose handlers run interleaved
MaxRequests == 2
\* uploads sent from the Dashboard in one session
MaxDashUploads == 1
\* patients created in a Dashboard session, and Dashboard handlers awaiting
\* a response at one time: many rows for the pagination, several handlers
\* for the confirmation modal
MaxRows == 6
MaxPagingTasks == 1
MaxModalRows == 2
MaxTasks == 2

(* --------------------------- program constants ------------------------ *)
fileSize == 10 * 1024 * 1024
pageSize == 5

Roles == {"admin", "dentist", "receptionist"}
\* req.user as protect resolves it: the role of the authenticated user; "guest"
\* is any role outside the three the routes name, NoUser a missing/invalid token
NoUser == "anonymous"
Users == Roles \cup {"guest", NoUser}

NoValue == [none |-> TRUE]
\* selectedPatient when nothing is selected (null); patient ids start at 1
NoPatient == 0
NoFile == [nofile |-> TRUE]

PatientIds == 1 .. (MaxPatients + 1)
\* every _id a Patient document can have
Ids == 1 .. ((IF MaxRows > MaxPatients THEN MaxRows ELSE MaxPatients) + 1)
AttachmentIds == 1 .. (MaxAttachments + 1)

(* File names are sequences of characters, so that path.extname is computed *)
xray_png == <<"x", ".", "p">>
scan_png == <<"s", ".", "p">>
big_png == <<".", "b", ".", "p">>

Files ==
  { [originalname |-> xray_png, mimetype |-> "image/png", size |-> 1024],
    [originalname |-> scan_png, mimetype |-> "image/png", size |-> fileSize],
    [originalname |-> big_png, mimetype |-> "image/png", size |-> fileSize + 1] }

(* ------------------------------ helpers ------------------------------- *)
Range(s) == {s[i] : i \in DOMAIN s}

Max(S) == CHOOSE x \in S : \A y \in S : y <= x

\* path.extname: from the last dot to the end; empty when there is no dot,
\* when the only dot leads the name, or for the name ".."
extname(name) ==
  LET dots == {i \in DOMAIN name : name[i] = "."}
  IN IF dots = {} THEN <<>>
     ELSE LET d == Max(dots)
          IN IF d = 1 \/ name = <<".", ".">> THEN <<>>
             ELSE SubSeq(name, d, Len(name))

\* `${Date.now()}-${file.fieldname}${ext}`
filename(t, file) ==
  [t |-> t, fieldname |-> "file", ext |-> extname(file.originalname)]

(* ------------------------------ state --------------------------------- *)
VARIABLES
  router,          \* which patient router is mounted: "disk", "basic" or "memory"
  patientSchema,   \* which attachment sub-schema is compiled: "filename" or "data"
  mongoose,        \* the installed Mongoose: how save() sends an array change,
                   \* and whether sub-documents have remove()
  busboy,          \* the multipart parser the installed multer reads the form
                   \* with: "0.2" or "1"
  patients,        \* ids of the Patient documents in the collection
  attachments,     \* attachments[id]: the document's ordered attachments array
  nextPatient,     \* generator of patient _id
  nextAttachment,  \* generator of attachment _id
  uploads,         \* names of the files present in uploads/
  unlinks,         \* file paths with an fs.unlink call in flight
  now,             \* Date.now()
  lastUpload,      \* the last successful upload and the array before it
  res,             \* the request handled last and its response
  inflight,        \* the handlers suspended at an await, one per connection
  patientList,     \* Dashboard state `patients`: the rows loaded last
  selectedPatient, \* Dashboard state: the id awaiting confirmation, or null
  editing,         \* Dashboard state: the id of the row being edited, or null
  searchTerm,      \* Dashboard state
  page,            \* Dashboard state
  tasks            \* Dashboard async handlers in flight, each at its await

vars == <<router, patientSchema, mongoose, busboy, patients, attachments, nextPatient,
          nextAttachment, uploads, unlinks, now, lastUpload, res, inflight,
          patientList, selectedPatient, editing, searchTerm, page, tasks>>

\* the state the Dashboard page renders from
view == <<patientList, selectedPatient, editing, searchTerm, page>>

config == <<router, patientSchema, mongoose, busboy>>

\* the versions of patientRoutes.js
Routers == {"disk", "basic", "memory"}

\* busboy 0.2 (multer up to 1.4.4) ends a file part with 'limit' when its
\* bytes exceed limits.fileSize, busboy 1 (multer 1.4.5-lts and 2) when they
\* reach it
Parsers == {"0.2", "1"}

\* save() sends the changed array as an atomic operator ($push, $pull), or
\* writes the document's whole array back
SaveModes == {"delta", "document"}

\* lastUpload.state: "none" before any upload, "live" while the array is as
\* the upload left it, "undone" once that attachment was deleted from it,
\* "stale" once anything else changed the arrays
NoUpload == [pid |-> 0, aid |-> 0, before |-> <<>>, state |-> "none"]

touched(last, undone) ==
  IF last.state = "none" THEN last
  ELSE [last EXCEPT !.state = IF undone /\ @ = "live" THEN "undone" ELSE "stale"]

\* a connection with no request being handled
Idle == [pc |-> "idle"]

NoRes ==
  [op |-> "none", status |-> 0, message |-> "", user |-> NoUser,
   pid |-> 0, aid |-> 0, file |-> NoFile, ended |-> "none",
   multer |-> "skipped", err |-> "", body |-> <<>>]

Init ==
  /\ router \in Routers
  /\ patientSchema \in {"filename", "data"}
  /\ mongoose \in [save : SaveModes, remove : BOOLEAN]
  \* only the delete route of the first router calls remove()
  /\ router # "disk" => mongoose.remove
  /\ busboy \in Parsers
  \* only the third router gives multer a limit
  /\ router # "memory" => busboy = "1"
  /\ patients = {}
  /\ attachments = [p \in Ids |-> <<>>]
  /\ nextPatient = 1
  /\ nextAttachment = 1
  /\ uploads = {}
  /\ unlinks = <<>>
  /\ now = 0
  /\ lastUpload = NoUpload
  /\ res = NoRes
  /\ inflight = [u \in 1 .. MaxRequests |-> Idle]
  \* the Dashboard as mounted: useEffect has called load()
  /\ patientList = <<>>
  /\ selectedPatient = NoPatient
  /\ editing = NoPatient
  /\ searchTerm = <<>>
  /\ page = 1
  /\ tasks = <<[fn |-> "mount", pc |-> "get", id |-> NoPatient, slot |-> 0,
               status |-> 0, data |-> <<>>]>>

(* ------------------------- schema and documents ----------------------- *)
\* Mongoose strict mode: a pushed field the compiled sub-schema does not
\* declare is dropped; _id is generated and uploadedAt defaults to Date.now
cast(schema, id, t, obj) ==
  [_id |-> id,
   filename |-> IF schema = "filename" THEN obj.filename ELSE NoValue,
   data |-> IF schema = "data" THEN obj.data ELSE NoValue,
   originalName |-> obj.originalName,
   mimeType |-> obj.mimeType,
   size |-> obj.size,
   uploadedAt |-> t]

\* id() falling back to the last sub-document when nothing matches
id_lax(atts, attachmentId) ==
  IF \E i \in DOMAIN atts : atts[i]._id = attachmentId
    THEN LET i == CHOOSE j \in DOMAIN atts : atts[j]._id = attachmentId
         IN atts[i]
    ELSE IF atts # <<>> THEN atts[Len(atts)] ELSE NoValue

\* patient.attachments.id(attachmentId): the sub-document or null
id(atts, attachmentId) ==
  IF \E i \in DOMAIN atts : atts[i]._id = attachmentId
    THEN LET i == CHOOSE j \in DOMAIN atts : atts[j]._id = attachmentId
         IN atts[i]
    ELSE NoValue

\* unshift in place of push
push_front(atts, doc) == <<doc>> \o atts

\* patient.attachments.push(obj): the array with the new sub-document last
push(atts, doc) == Append(atts, doc)

\* attachment.remove(): the array without that sub-document
remove(atts, attachmentId) ==
  SelectSeq(atts, LAMBDA a : a._id # attachmentId)

\* a number in decimal digits
RECURSIVE decimal(_)
decimal(n) ==
  LET digit == <<"0", "1", "2", "3", "4", "5", "6", "7", "8", "9">>[(n % 10) + 1]
  IN IF n < 10 THEN <<digit>> ELSE Append(decimal(n \div 10), digit)

\* the Patient documents of a session: the id-th patient created carries the
\* name and phone of one of two forms, alternating, and an email of its own
\* (the schema declares email unique and lower case)
document(pid) ==
  IF pid % 2 = 1
    THEN [_id |-> pid, name |-> <<"B", "o">>,
          email |-> <<"o">> \o decimal(pid) \o <<"@">>, phone |-> <<"5">>]
    ELSE [_id |-> pid, name |-> <<"A", "n">>,
          email |-> <<"n">> \o decimal(pid) \o <<"@">>, phone |-> <<"6">>]

\* GET /patients answers with every document, in insertion order
rowsOf(ids) ==
  LET present == SelectSeq([i \in 1 .. Max(ids \cup {0}) |-> i],
                           LAMBDA i : i \in ids)
  IN [i \in DOMAIN present |-> document(present[i])]

(* ------------------------------ routing ------------------------------- *)
Routes ==
  {"getPatients", "createPatient", "getPatient", "updatePatient",
   "deletePatient", "upload", "listAttachments", "deleteAttachment"}

\* the appointment routes; the file defines the router twice, and the routes
\* of its second definition carry the suffix 2
AppointmentRoutes ==
  {"getAppointments", "createAppointment", "updateAppointment",
   "deleteAppointment", "getAppointments2", "createAppointment2",
   "updateAppointment2", "deleteAppointment2"}

\* the routes each router file registers: only the first version has the
\* list and delete routes of the attachments
registered(r) ==
  IF r = "disk" THEN Routes \cup AppointmentRoutes
  ELSE (Routes \ {"listAttachments", "deleteAttachment"}) \cup AppointmentRoutes

\* multer.diskStorage or multer.memoryStorage
storage(r) == IF r = "memory" THEN "memory" ELSE "disk"

\* the role lists with the receptionist added to both delete routes
requireRoleArgs_wide(route) ==
  CASE route \in {"createPatient", "updatePatient"} -> {"admin", "receptionist"}
    [] route \in {"createAppointment", "updateAppointment", "getAppointments2",
                  "createAppointment2", "updateAppointment2"}
         -> {"admin", "dentist", "receptionist"}
    [] route \in {"deleteAppointment", "deleteAppointment2"} -> {"admin", "dentist"}
    [] route = "deletePatient" -> {"admin", "receptionist"}
    [] route \in {"upload", "listAttachments"} -> {"admin", "dentist", "receptionist"}
    [] route = "deleteAttachment" -> {"admin", "dentist", "receptionist"}

\* the role lists with the receptionist added to the delete route of the
\* first appointment router
requireRoleArgs_receptionist(route) ==
  CASE route \in {"createPatient", "updatePatient"} -> {"admin", "receptionist"}
    [] route \in {"createAppointment", "updateAppointment", "getAppointments2",
                  "createAppointment2", "updateAppointment2", "deleteAppointment"}
         -> {"admin", "dentist", "receptionist"}
    [] route = "deleteAppointment2" -> {"admin", "dentist"}
    [] route = "deletePatient" -> {"admin"}
    [] route \in {"upload", "listAttachments"} -> {"admin", "dentist", "receptionist"}
    [] route = "deleteAttachment" -> {"admin", "dentist"}

\* the argument list of requireRole(...) on each route that has one
requireRoleArgs(route) ==
  CASE route \in {"createPatient", "updatePatient"} -> {"admin", "receptionist"}
    [] route \in {"createAppointment", "updateAppointment", "getAppointments2",
                  "createAppointment2", "updateAppointment2"}
         -> {"admin", "dentist", "receptionist"}
    [] route \in {"deleteAppointment", "deleteAppointment2"} -> {"admin", "dentist"}
    [] route = "deletePatient" -> {"admin"}
    [] route \in {"upload", "listAttachments"} -> {"admin", "dentist", "receptionist"}
    [] route = "deleteAttachment" -> {"admin", "dentist"}

\* the stacks with multer registered ahead of protect on the upload route
stack_uploadFirst(route) ==
  CASE route \in {"getPatients", "getPatient", "getAppointments"}
         -> <<"protect", "handler">>
    [] route = "upload" -> <<"upload", "protect", "requireRole", "handler">>
    [] OTHER -> <<"protect", "requireRole", "handler">>

\* the middleware stack of each route, in registration order
stack(route) ==
  CASE route \in {"getPatients", "getPatient", "getAppointments"}
         -> <<"protect", "handler">>
    [] route = "upload" -> <<"protect", "requireRole", "upload", "handler">>
    [] OTHER -> <<"protect", "requireRole", "handler">>

\* protect: a valid token resolves req.user, otherwise 401
protect(req) == req.user # NoUser

\* requireRole(...roles): req.user.role must be one of roles, otherwise 403
requireRole(roles, req) == req.user \in roles

\* multer without limits on either router
\* busboy on a file part of `size` bytes under limits.fileSize = limit:
\* whether it emits 'limit' and marks the stream truncated, on which multer
\* fails the request with LIMIT_FILE_SIZE
truncated(parser, size, limit) ==
  IF parser = "0.2" THEN size > limit ELSE size >= limit

upload_nolimit(r, file) == IF file = NoFile THEN "none" ELSE "file"

\* multer single("file"): "none" when the form has no file part, "limit" when
\* busboy cut the part off at limits.fileSize (memory router only; the disk
\* routers configure no limits), otherwise "file"
upload(r, file) ==
  IF file = NoFile THEN "none"
  ELSE IF r = "memory" /\ truncated(busboy, file.size, fileSize) THEN "limit"
  ELSE "file"

\* whether a middleware calls next() without an error
next(r, mw, route, req) ==
  CASE mw = "protect" -> protect(req)
    [] mw = "requireRole" -> requireRole(requireRoleArgs(route), req)
    [] mw = "upload" -> upload(r, req.file) # "limit"
    [] OTHER -> FALSE

\* the middleware that run for a request: the stack up to and including the
\* first one that does not call next(); none when the route is not registered
RECURSIVE dispatch(_, _, _, _)
dispatch(r, st, route, req) ==
  IF st = <<>> \/ route \notin registered(r) THEN <<>>
  ELSE IF next(r, Head(st), route, req)
         THEN <<Head(st)>> \o dispatch(r, Tail(st), route, req)
         ELSE <<Head(st)>>

\* the middleware that ended the request ("none": no route matched)
ended(ran) == IF ran = <<>> THEN "none" ELSE ran[Len(ran)]

Request(user, pid, aid, file) ==
  [user |-> user, pid |-> pid, aid |-> aid, file |-> file]

\* statuses the application's error middleware may give a MulterError
ErrorStatuses == {400, 413, 500}

\* the response of a request that ended before the handler
rejected(op, req, mw, multer, errStatus) ==
  [op |-> op,
   status |-> CASE mw = "none" -> 404
                [] mw = "protect" -> 401
                [] mw = "requireRole" -> 403
                [] OTHER -> errStatus,
   message |-> CASE mw = "none" -> "Cannot " \o op
                 [] mw = "protect" -> "Not authorized"
                 [] mw = "requireRole" -> "Forbidden"
                 [] OTHER -> "LIMIT_FILE_SIZE",
   user |-> req.user, pid |-> req.pid, aid |-> req.aid, file |-> req.file,
   ended |-> mw,
   multer |-> multer,
   err |-> IF mw = "upload" THEN "MulterError" ELSE "", body |-> <<>>]

respond(op, req, multer, err, status, message, body) ==
  [op |-> op, status |-> status, message |-> message, user |-> req.user,
   pid |-> req.pid, aid |-> req.aid, file |-> req.file, ended |-> "handler",
   multer |-> multer, err |-> err, body |-> body]

DbOutcomes == {"ok", "findFails", "saveFails"}

(* ------------------- POST /api/patients/:id/attachments --------------- *)
\* the handler looking the patient up before it looks at req.file
postAttachment_lookupFirst(r, found, file, db) ==
  IF db = "findFails"
    THEN [status |-> 500, message |-> "Upload failed",
          err |-> "MongoError", saved |-> FALSE]
  ELSE IF ~found
    THEN [status |-> 404, message |-> "Patient not found",
          err |-> "", saved |-> FALSE]
  ELSE IF file = NoFile
    THEN [status |-> IF r = "memory" THEN 400 ELSE 500,
          message |-> IF r = "memory" THEN "No file uploaded" ELSE "Upload failed",
          err |-> IF r = "memory" THEN "" ELSE "TypeError", saved |-> FALSE]
  ELSE IF db = "saveFails"
    THEN [status |-> 500, message |-> "Upload failed",
          err |-> "MongoError", saved |-> FALSE]
  ELSE [status |-> 201,
        message |-> IF r = "basic" THEN "File uploaded" ELSE "Attachment uploaded",
        err |-> "", saved |-> TRUE]

\* the route handler: status and message, and whether the push was saved,
\* given what its awaits return
postAttachment(r, found, file, db) ==
  IF r = "memory" /\ file = NoFile
    THEN [status |-> 400, message |-> "No file uploaded",
          err |-> "", saved |-> FALSE]
  ELSE IF db = "findFails"
    THEN [status |-> 500, message |-> "Upload failed",
          err |-> "MongoError", saved |-> FALSE]
  ELSE IF ~found
    THEN [status |-> 404, message |-> "Patient not found",
          err |-> "", saved |-> FALSE]
  ELSE IF file = NoFile
    \* disk router: req.file is undefined, req.file.filename throws
    THEN [status |-> 500, message |-> "Upload failed",
          err |-> "TypeError", saved |-> FALSE]
  ELSE IF db = "saveFails"
    THEN [status |-> 500, message |-> "Upload failed",
          err |-> "MongoError", saved |-> FALSE]
  ELSE [status |-> 201,
        message |-> IF r = "basic" THEN "File uploaded" ELSE "Attachment uploaded",
        err |-> "", saved |-> TRUE]

\* the object the handler pushes onto patient.attachments; name is
\* req.file.filename as multer set it
pushed(r, name, file) ==
  [filename |-> IF storage(r) = "disk" THEN name ELSE NoValue,
   data |-> IF storage(r) = "memory" THEN [buffer |-> file.size] ELSE NoValue,
   originalName |-> file.originalname,
   mimeType |-> file.mimetype,
   size |-> file.size]

(* the requests of the Dashboard: a handler of the page sends a request and *)
(* awaits the response; the API serves it, and the response settles the     *)
(* handler's promise, which resumes in a later step of the browser          *)
drop(seq, i) == SubSeq(seq, 1, i - 1) \o SubSeq(seq, i + 1, Len(seq))

\* axios resolves on a 2xx status and rejects otherwise
Answered2xx(status) == status \in {200, 201}

\* a continuation of an async Dashboard handler is running: no event is
\* handled until it has run to its next await or to its end
running ==
  \E i \in DOMAIN tasks : tasks[i].pc \in {"setEditing", "setPage", "dismiss"}

\* request `route` of Dashboard handler k is on its way to the API (k = 0:
\* the request of any other client)
Sent(k, route) ==
  k # 0 => /\ k \in DOMAIN tasks
           /\ tasks[k].pc = route
           /\ tasks[k].status = 0
           /\ tasks[k].slot = 0

\* the response reaches the browser: the promise handler k awaits is settled
\* with the status and the data
settle(ts, k, status, data) ==
  IF k = 0 THEN ts
  ELSE [ts EXCEPT ![k].status = status, ![k].data = data, ![k].slot = 0]

\* handleUpload after its await of api.post: on success it calls load(),
\* which sends GET /patients; on failure it catches and ends
handleUpload(ts, i, status) ==
  IF Answered2xx(status)
    THEN [ts EXCEPT ![i].pc = "get", ![i].status = 0, ![i].data = <<>>]
  ELSE drop(ts, i)

\* the Dashboard handlers whose request is being handled on connection u
waiting(ts, u) == {i \in DOMAIN ts : ts[i].slot = u}

\* the Dashboard after connection u was answered
answered(ts, u, status) ==
  IF waiting(ts, u) = {} THEN ts
  ELSE settle(ts, CHOOSE i \in waiting(ts, u) : TRUE, status, <<>>)

\* the connection a new request is accepted on
Free(u) == inflight[u] = Idle /\ \A v \in 1 .. (u - 1) : inflight[v] # Idle

\* upload handlers that have not pushed their sub-document yet
Unpushed == {u \in DOMAIN inflight : inflight[u].pc = "find"}

\* the array save() leaves in the collection, whatever the installed Mongoose
saved_fresh(mode, stored, copy, doc) == push(stored, doc)

\* patient.attachments.push(obj); await patient.save(): the sub-document was
\* pushed onto the document findById returned; save sends the push to the
\* stored array, or writes that document's array back
saved(mode, stored, copy, doc) ==
  IF mode = "document" THEN push(copy, doc) ELSE push(stored, doc)

\* an upload request arrives: protect, requireRole, multer, and the handler
\* up to its first await.  t is Date.now() when multer names the file; k is
\* the Dashboard handler that sent the request, 0 for any other client
Upload(u, user, pid, file, t, k) ==
  LET req == Request(user, pid, 0, file)
      ran == dispatch(router, stack("upload"), "upload", req)
      multer == IF "upload" \in Range(ran) THEN upload(router, file) ELSE "skipped"
      \* disk storage writes the file while multer parses the form
      written == storage(router) = "disk" /\ multer = "file"
      name == IF written THEN filename(t, file) ELSE NoValue
      \* the handler before findById has settled: nothing found yet, and an
      \* answer only where the handler does not wait for it
      h == postAttachment(router, FALSE, file, "findFails")
  IN /\ Free(u)
     /\ nextAttachment + Cardinality(Unpushed) <= MaxAttachments
     /\ Sent(k, "postAttachment")
     /\ k # 0 => tasks[k].id = pid
     /\ t \in {now, now + 1} /\ t <= MaxTime
     /\ t # now => written
     /\ now' = t
     /\ uploads' = IF written THEN uploads \cup {name} ELSE uploads
     /\ IF ended(ran) # "handler"
          THEN \E errStatus \in IF ended(ran) = "upload" THEN ErrorStatuses ELSE {0} :
                 LET r == rejected("upload", req, ended(ran), multer, errStatus)
                 IN /\ res' = r
                    /\ tasks' = settle(tasks, k, r.status, <<>>)
                    /\ UNCHANGED inflight
          ELSE IF h.status = 400
          THEN /\ res' = respond("upload", req, multer, h.err, h.status, h.message, <<>>)
               /\ tasks' = settle(tasks, k, h.status, <<>>)
               /\ UNCHANGED inflight
          ELSE /\ inflight' = [inflight EXCEPT ![u] =
                                [pc |-> "find", op |-> "upload", req |-> req,
                                 multer |-> multer, name |-> name]]
               /\ res' = NoRes
               /\ tasks' = IF k = 0 THEN tasks ELSE [tasks EXCEPT ![k].slot = u]
     /\ UNCHANGED <<config, view, patients, attachments, nextPatient,
                    nextAttachment, unlinks, lastUpload>>

\* Patient.findById settles: the handler goes on to its push and calls
\* save(), or answers.  t is Date.now() when the sub-document is created
UploadFound(u, db, t) ==
  /\ inflight[u].pc = "find"
  /\ LET r == inflight[u]
         req == r.req
         h == postAttachment(router, req.pid \in patients, req.file, db)
         doc == cast(patientSchema, nextAttachment, t,
                     pushed(router, r.name, req.file))
     IN /\ t \in {now, now + 1} /\ t <= MaxTime
        /\ t # now => h.saved
        /\ now' = t
        /\ IF h.saved
             THEN /\ inflight' = [inflight EXCEPT ![u] =
                                   [pc |-> "save", op |-> "upload", req |-> req,
                                    multer |-> r.multer,
                                    copy |-> attachments[req.pid], doc |-> doc]]
                  /\ nextAttachment' = nextAttachment + 1
                  /\ res' = NoRes
                  /\ UNCHANGED tasks
             ELSE /\ inflight' = [inflight EXCEPT ![u] = Idle]
                  /\ res' = respond("upload", req, r.multer, h.err, h.status,
                                    h.message, <<>>)
                  /\ tasks' = answered(tasks, u, h.status)
                  /\ UNCHANGED nextAttachment
  /\ UNCHANGED <<config, view, patients, attachments, nextPatient, uploads,
                 unlinks, lastUpload>>

\* patient.save() settles and the handler answers; save() rejects when the
\* database fails or the record was deleted in the meantime
UploadSaved(u, db) ==
  /\ inflight[u].pc = "save"
  /\ inflight[u].op = "upload"
  /\ LET r == inflight[u]
         req == r.req
         write == IF req.pid \in patients THEN db ELSE "saveFails"
         h == postAttachment(router, TRUE, req.file, write)
     IN /\ IF h.saved
             THEN /\ attachments' = [attachments EXCEPT ![req.pid] =
                                       saved(mongoose.save, @, r.copy, r.doc)]
                  /\ lastUpload' = [pid |-> req.pid, aid |-> r.doc._id,
                                    before |-> attachments[req.pid],
                                    state |-> "live"]
                  /\ res' = respond("upload", req, r.multer, h.err, h.status,
                                    h.message, push(r.copy, r.doc))
             ELSE /\ res' = respond("upload", req, r.multer, h.err, h.status,
                                    h.message, <<>>)
                  /\ UNCHANGED <<attachments, lastUpload>>
        /\ tasks' = answered(tasks, u, h.status)
  /\ inflight' = [inflight EXCEPT ![u] = Idle]
  /\ UNCHANGED <<config, view, patients, nextPatient, nextAttachment, uploads,
                 unlinks, now>>

(* ------------------- GET /api/patients/:id/attachments ---------------- *)
\* the handler without its not-found branch
getAttachments_found(found, db) ==
  IF db = "findFails"
    THEN [status |-> 500, message |-> "Failed to load attachments",
          err |-> "MongoError"]
  ELSE [status |-> 200, message |-> "", err |-> ""]

getAttachments(found, db) ==
  IF db = "findFails"
    THEN [status |-> 500, message |-> "Failed to load attachments",
          err |-> "MongoError"]
  ELSE IF ~found
    THEN [status |-> 404, message |-> "Patient not found", err |-> ""]
  ELSE [status |-> 200, message |-> "", err |-> ""]

ListAttachments(user, pid) ==
  LET req == Request(user, pid, 0, NoFile)
      ran == dispatch(router, stack("listAttachments"), "listAttachments", req)
  IN /\ IF ended(ran) # "handler"
          THEN res' = rejected("listAttachments", req, ended(ran), "skipped", 0)
          ELSE \E db \in {"ok", "findFails"} :
                 LET h == getAttachments(pid \in patients, db)
                 IN res' = respond("listAttachments", req, "skipped", h.err,
                                   h.status, h.message,
                                   IF h.status = 200 THEN attachments[pid] ELSE <<>>)
     /\ UNCHANGED <<config, view, tasks, inflight, patients, attachments,
                    nextPatient, nextAttachment,
                    uploads, unlinks, now, lastUpload>>

(* ----------- DELETE /api/patients/:id/attachments/:attachmentId ------- *)
\* the route handler: status and message, whether fs.unlink was called and
\* whether the removal was saved, given what its awaits return and whether
\* the installed Mongoose gives sub-documents a remove()
deleteAttachment(found, attachment, db, removeApi) ==
  IF db = "findFails"
    THEN [status |-> 500, message |-> "Failed to delete attachment",
          err |-> "MongoError",
          unlink |-> FALSE, saved |-> FALSE]
  ELSE IF ~found
    THEN [status |-> 404, message |-> "Patient not found", err |-> "",
          unlink |-> FALSE, saved |-> FALSE]
  ELSE IF attachment = NoValue
    THEN [status |-> 404, message |-> "Attachment not found", err |-> "",
          unlink |-> FALSE, saved |-> FALSE]
  ELSE IF attachment.filename = NoValue
    \* path.join("uploads", undefined) throws a TypeError inside the try
    THEN [status |-> 500, message |-> "Failed to delete attachment",
          err |-> "TypeError",
          unlink |-> FALSE, saved |-> FALSE]
  ELSE IF ~removeApi
    \* attachment.remove is not a function: thrown after fs.unlink was called
    THEN [status |-> 500, message |-> "Failed to delete attachment",
          err |-> "TypeError",
          unlink |-> TRUE, saved |-> FALSE]
  ELSE IF db = "saveFails"
    THEN [status |-> 500, message |-> "Failed to delete attachment",
          err |-> "MongoError",
          unlink |-> TRUE, saved |-> FALSE]
  ELSE [status |-> 200, message |-> "Attachment deleted", err |-> "",
        unlink |-> TRUE, saved |-> TRUE]

\* attachment.remove(); await patient.save(): the sub-document was removed
\* from the document findById returned; save sends the removal to the stored
\* array, or writes that document's array back
removed(mode, stored, copy, attachmentId) ==
  IF mode = "document" THEN remove(copy, attachmentId)
  ELSE remove(stored, attachmentId)

\* a delete request arrives and its findById settles: the handler looks the
\* attachment up, calls fs.unlink, removes the sub-document from its copy and
\* calls save(), or answers
DeleteAttachment(u, user, pid, aid, db) ==
  LET req == Request(user, pid, aid, NoFile)
      ran == dispatch(router, stack("deleteAttachment"), "deleteAttachment", req)
      attachment == id(attachments[pid], aid)
      h == deleteAttachment(pid \in patients, attachment, db, mongoose.remove)
  IN /\ Free(u)
     /\ IF ended(ran) # "handler"
          THEN /\ res' = rejected("deleteAttachment", req, ended(ran), "skipped", 0)
               /\ UNCHANGED <<inflight, unlinks>>
          ELSE /\ h.unlink => Len(unlinks) < MaxUnlinks
               /\ unlinks' = IF h.unlink
                               THEN Append(unlinks, attachment.filename)
                               ELSE unlinks
               /\ IF h.saved
                    THEN /\ inflight' = [inflight EXCEPT ![u] =
                                          [pc |-> "save", op |-> "deleteAttachment",
                                           req |-> req,
                                           copy |-> attachments[pid]]]
                         /\ res' = NoRes
                    ELSE /\ res' = respond("deleteAttachment", req, "skipped",
                                           h.err, h.status, h.message, <<>>)
                         /\ UNCHANGED inflight
     /\ UNCHANGED <<config, view, tasks, patients, attachments, nextPatient,
                    nextAttachment, uploads, now, lastUpload>>

\* patient.save() settles and the delete handler answers
DeleteSaved(u, db) ==
  /\ inflight[u].pc = "save"
  /\ inflight[u].op = "deleteAttachment"
  /\ LET r == inflight[u]
         req == r.req
         write == IF req.pid \in patients THEN db ELSE "saveFails"
         h == deleteAttachment(TRUE, id(r.copy, req.aid), write, mongoose.remove)
     IN IF h.saved
          THEN /\ attachments' = [attachments EXCEPT ![req.pid] =
                                    removed(mongoose.save, @, r.copy, req.aid)]
               /\ lastUpload' = touched(lastUpload,
                                        req.pid = lastUpload.pid
                                        /\ req.aid = lastUpload.aid)
               /\ res' = respond("deleteAttachment", req, "skipped", h.err,
                                 h.status, h.message, remove(r.copy, req.aid))
          ELSE /\ res' = respond("deleteAttachment", req, "skipped", h.err,
                                 h.status, h.message, <<>>)
               /\ UNCHANGED <<attachments, lastUpload>>
  /\ inflight' = [inflight EXCEPT ![u] = Idle]
  /\ UNCHANGED <<config, view, tasks, patients, nextPatient, nextAttachment,
                 uploads, unlinks, now>>

\* completion of an fs.unlink call: the file is removed, or the callback
\* receives an error (no such file, or any other failure) and only warns
UnlinkDone(i, ok) ==
  /\ i \in DOMAIN unlinks
  /\ LET filePath == unlinks[i]
         err == ~ok \/ filePath \notin uploads
     IN /\ uploads' = IF err THEN uploads ELSE uploads \ {filePath}
        /\ res' = [NoRes EXCEPT !.op = "unlink",
                                !.message = IF err THEN "Could not delete file from disk"
                                            ELSE ""]
  /\ unlinks' = SubSeq(unlinks, 1, i - 1) \o SubSeq(unlinks, i + 1, Len(unlinks))
  /\ UNCHANGED <<config, view, tasks, inflight, patients, attachments, nextPatient,
                 nextAttachment,
                 now, lastUpload>>

(* --------------------------- patient CRUD ----------------------------- *)
\* the controllers: list, fetch, create, update and delete of Patient
getPatients(db) ==
  IF db = "findFails" THEN [status |-> 500, message |-> "Server error",
        err |-> "MongoError"]
  ELSE [status |-> 200, message |-> "", err |-> ""]

getPatient(found, db) ==
  IF db = "findFails" THEN [status |-> 500, message |-> "Server error",
        err |-> "MongoError"]
  ELSE IF ~found THEN [status |-> 404, message |-> "Patient not found",
        err |-> ""]
  ELSE [status |-> 200, message |-> "", err |-> ""]

createPatient(valid, db) ==
  IF ~valid THEN [status |-> 400, message |-> "Validation failed", err |-> ""]
  ELSE IF db = "saveFails" THEN [status |-> 500, message |-> "Server error",
        err |-> "MongoError"]
  ELSE [status |-> 201, message |-> "", err |-> ""]

updatePatient(found, valid, db) ==
  IF db = "findFails" THEN [status |-> 500, message |-> "Server error",
        err |-> "MongoError"]
  ELSE IF ~found THEN [status |-> 404, message |-> "Patient not found",
        err |-> ""]
  ELSE IF ~valid THEN [status |-> 400, message |-> "Validation failed",
        err |-> ""]
  ELSE [status |-> 200, message |-> "", err |-> ""]

deletePatient(found, db) ==
  IF db = "findFails" THEN [status |-> 500, message |-> "Server error",
        err |-> "MongoError"]
  ELSE IF ~found THEN [status |-> 404, message |-> "Patient not found",
        err |-> ""]
  ELSE [status |-> 200, message |-> "Patient deleted", err |-> ""]

\* k is the Dashboard handler that sent the request, 0 for any other client
GetPatients(user, k) ==
  LET req == Request(user, 0, 0, NoFile)
      ran == dispatch(router, stack("getPatients"), "getPatients", req)
  IN /\ Sent(k, "get")
     /\ IF ended(ran) # "handler"
          THEN res' = rejected("getPatients", req, ended(ran), "skipped", 0)
          ELSE \E db \in {"ok", "findFails"} :
                 LET h == getPatients(db)
                 IN res' = respond("getPatients", req, "skipped", h.err, h.status,
                                   h.message, <<>>)
     /\ tasks' = settle(tasks, k, res'.status,
                        IF res'.status = 200 THEN rowsOf(patients) ELSE <<>>)
     /\ UNCHANGED <<config, view, inflight, patients, attachments,
                    nextPatient, nextAttachment,
                    uploads, unlinks, now, lastUpload>>

GetPatient(user, pid) ==
  LET req == Request(user, pid, 0, NoFile)
      ran == dispatch(router, stack("getPatient"), "getPatient", req)
  IN /\ IF ended(ran) # "handler"
          THEN res' = rejected("getPatient", req, ended(ran), "skipped", 0)
          ELSE \E db \in {"ok", "findFails"} :
                 LET h == getPatient(pid \in patients, db)
                 IN res' = respond("getPatient", req, "skipped", h.err, h.status,
                                   h.message,
                                   IF h.status = 200 THEN attachments[pid] ELSE <<>>)
     /\ UNCHANGED <<config, view, tasks, inflight, patients, attachments,
                    nextPatient, nextAttachment,
                    uploads, unlinks, now, lastUpload>>

\* the ids of other clients' patients are bounded by MaxPatients, those of
\* the Dashboard where the form is submitted
CreatePatient(user, valid, k) ==
  LET req == Request(user, 0, 0, NoFile)
      ran == dispatch(router, stack("createPatient"), "createPatient", req)
  IN /\ Sent(k, "post")
     /\ k = 0 => nextPatient <= MaxPatients
     /\ IF ended(ran) # "handler"
          THEN /\ res' = rejected("createPatient", req, ended(ran), "skipped", 0)
               /\ UNCHANGED <<patients, nextPatient>>
          ELSE \E db \in {"ok", "saveFails"} :
                 LET h == createPatient(valid, db)
                 IN IF h.status = 201
                      THEN /\ patients' = patients \cup {nextPatient}
                           /\ nextPatient' = nextPatient + 1
                           /\ res' = respond("createPatient",
                                             [req EXCEPT !.pid = nextPatient],
                                             "skipped", h.err, h.status, h.message, <<>>)
                      ELSE /\ res' = respond("createPatient", req, "skipped", h.err,
                                             h.status, h.message, <<>>)
                           /\ UNCHANGED <<patients, nextPatient>>
     /\ tasks' = settle(tasks, k, res'.status, <<>>)
     /\ UNCHANGED <<config, view, inflight, attachments, nextAttachment,
                    uploads, unlinks,
                    now, lastUpload>>

UpdatePatient(user, pid, valid, k) ==
  LET req == Request(user, pid, 0, NoFile)
      ran == dispatch(router, stack("updatePatient"), "updatePatient", req)
  IN /\ Sent(k, "put")
     /\ k # 0 => tasks[k].id = pid
     /\ IF ended(ran) # "handler"
          THEN res' = rejected("updatePatient", req, ended(ran), "skipped", 0)
          ELSE \E db \in {"ok", "findFails"} :
                 LET h == updatePatient(pid \in patients, valid, db)
                 IN res' = respond("updatePatient", req, "skipped", h.err, h.status,
                                   h.message, <<>>)
     /\ tasks' = settle(tasks, k, res'.status, <<>>)
     /\ UNCHANGED <<config, view, inflight, patients, attachments,
                    nextPatient, nextAttachment,
                    uploads, unlinks, now, lastUpload>>

\* deleting the document deletes its embedded attachments with it
DeletePatient(user, pid, k) ==
  LET req == Request(user, pid, 0, NoFile)
      ran == dispatch(router, stack("deletePatient"), "deletePatient", req)
  IN /\ Sent(k, "delete")
     /\ k # 0 => tasks[k].id = pid
     /\ IF ended(ran) # "handler"
          THEN /\ res' = rejected("deletePatient", req, ended(ran), "skipped", 0)
               /\ UNCHANGED <<patients, attachments, lastUpload>>
          ELSE \E db \in {"ok", "findFails"} :
                 LET h == deletePatient(pid \in patients, db)
                 IN /\ patients' = IF h.status = 200 THEN patients \ {pid}
                                   ELSE patients
                    /\ attachments' = IF h.status = 200
                                        THEN [attachments EXCEPT ![pid] = <<>>]
                                        ELSE attachments
                    /\ lastUpload' = IF h.status = 200 THEN touched(lastUpload, FALSE)
                                      ELSE lastUpload
                    /\ res' = respond("deletePatient", req, "skipped", h.err,
                                      h.status, h.message, <<>>)
     /\ tasks' = settle(tasks, k, res'.status, <<>>)
     /\ UNCHANGED <<config, view, inflight, nextPatient, nextAttachment,
                    uploads, unlinks, now>>

(* ------------------------- /api/appointments ------------------------- *)
\* the appointment controllers answer once the request is through the stack
appointmentController(route, db) ==
  IF db # "ok" THEN [status |-> 500, message |-> "Server error", err |-> "MongoError"]
  ELSE [status |-> IF route \in {"createAppointment", "createAppointment2"}
                     THEN 201 ELSE 200,
        message |-> "", err |-> ""]

Appointment(user, route) ==
  LET req == Request(user, 0, 0, NoFile)
      ran == dispatch(router, stack(route), route, req)
  IN /\ IF ended(ran) # "handler"
          THEN res' = rejected(route, req, ended(ran), "skipped", 0)
          ELSE \E db \in {"ok", "findFails"} :
                 LET h == appointmentController(route, db)
                 IN res' = respond(route, req, "skipped", h.err, h.status,
                                   h.message, <<>>)
     /\ UNCHANGED <<config, view, tasks, inflight, patients, attachments,
                    nextPatient, nextAttachment,
                    uploads, unlinks, now, lastUpload>>

(* ------------------------------ Dashboard ---------------------------- *)
\* what the search box may hold
SearchTerms == {<<>>, <<"B">>, <<"z">>}

\* String.prototype.toLowerCase over the letters in use
toLowerCase(str) ==
  [i \in DOMAIN str |-> CASE str[i] = "A" -> "a"
                          [] str[i] = "B" -> "b"
                          [] OTHER -> str[i]]

\* String.prototype.includes
includes(str, q) ==
  \E i \in 1 .. (Len(str) - Len(q) + 1) : SubSeq(str, i, i + Len(q) - 1) = q

\* patients.filter(...): the rows whose name, email or phone holds the term
filtered(list, term) ==
  LET q == toLowerCase(term)
  IN SelectSeq(list, LAMBDA p : \/ includes(toLowerCase(p.name), q)
                               \/ includes(toLowerCase(p.email), q)
                               \/ includes(toLowerCase(p.phone), q))

\* Math.max(1, Math.ceil(filtered.length / pageSize))
totalPages(list, term) ==
  LET n == Len(filtered(list, term))
      ceil == IF n % pageSize = 0 THEN n \div pageSize ELSE n \div pageSize + 1
  IN IF ceil > 1 THEN ceil ELSE 1

\* the page number used as it is
safePage_unclamped(pg, list, term) == pg

\* Math.min(page, totalPages)
safePage(pg, list, term) ==
  IF pg < totalPages(list, term) THEN pg ELSE totalPages(list, term)

\* filtered.slice(start, start + pageSize)
current(pg, list, term) ==
  LET f == filtered(list, term)
      start == (safePage(pg, list, term) - 1) * pageSize
      end == IF start + pageSize < Len(f) THEN start + pageSize ELSE Len(f)
  IN IF start < 0 THEN <<>> ELSE SubSeq(f, start + 1, end)

\* goTo without its range check
goTo_unchecked(p, pg, list, term) == p

\* goTo(p): the page after the call
goTo(p, pg, list, term) ==
  IF p >= 1 /\ p <= totalPages(list, term) THEN p ELSE pg

NoRequest == NoValue

\* onConfirm without its guard
onConfirm_unguarded(selected) == [method |-> "DELETE", id |-> selected]

\* ConfirmModal onConfirm up to its first await: the request remove() sends,
\* none when nothing is selected
onConfirm(selected) ==
  IF selected = NoPatient THEN NoRequest
  ELSE [method |-> "DELETE", id |-> selected]

\* savePatient up to its first await: update(payload) sends a PUT for the
\* row being edited, create(payload) a POST when no row is
savePatient(edited) ==
  IF edited # NoPatient THEN [method |-> "PUT", id |-> edited]
  ELSE [method |-> "POST", id |-> NoPatient]

\* who is logged in on the Dashboard
DashUsers == {"admin"}

\* the file the user picks for an upload
DashFile == CHOOSE f \in Files : f.size < fileSize

server == <<config, attachments, nextAttachment, uploads, unlinks, now,
            lastUpload, res, inflight>>

\* a Dashboard handler suspended at the await named by pc, its request sent:
\* status is 0 until the response has arrived, data is the response's rows,
\* slot the connection an upload is being handled on
Task(fn, pc, pid) ==
  [fn |-> fn, pc |-> pc, id |-> pid, slot |-> 0, status |-> 0, data |-> <<>>]

\* PatientTable Edit button of a displayed row: onEdit(p)
OnEdit(i) ==
  /\ ~running
  /\ i \in DOMAIN current(page, patientList, searchTerm)
  /\ editing' = current(page, patientList, searchTerm)[i]._id
  /\ UNCHANGED <<server, patients, nextPatient, patientList, selectedPatient,
                 searchTerm, page, tasks>>

\* PatientTable Delete button of a displayed row: onDelete(p._id)
OnDelete(i) ==
  /\ ~running
  /\ i \in DOMAIN current(page, patientList, searchTerm)
  /\ selectedPatient' = current(page, patientList, searchTerm)[i]._id
  /\ UNCHANGED <<server, patients, nextPatient, patientList, editing,
                 searchTerm, page, tasks>>

\* ConfirmModal Cancel
OnCancel ==
  /\ ~running
  /\ selectedPatient' = NoPatient
  /\ UNCHANGED <<server, patients, nextPatient, patientList, editing,
                 searchTerm, page, tasks>>

\* ConfirmModal Delete: remove(selectedPatient) runs to its await of api.delete
OnConfirm(handlers) ==
  /\ ~running
  /\ Len(tasks) < handlers
  /\ LET request == onConfirm(selectedPatient)
     IN /\ tasks' = IF request = NoRequest THEN tasks
                    ELSE Append(tasks, Task("onConfirm", "delete", request.id))
  /\ UNCHANGED <<server, patients, nextPatient, view>>

\* search box onChange: setSearchTerm(value); setPage(1)
Search(term) ==
  /\ ~running
  /\ searchTerm' = term
  /\ page' = 1
  /\ UNCHANGED <<server, patients, nextPatient, patientList, selectedPatient,
                 editing, tasks>>

\* a pagination button: goTo(p)
GoTo(p) ==
  /\ ~running
  /\ page' = goTo(p, page, patientList, searchTerm)
  /\ UNCHANGED <<server, patients, nextPatient, patientList, selectedPatient,
                 editing, searchTerm, tasks>>

\* PatientForm submit: savePatient(payload) runs to the await of api.put in
\* update or of api.post in create
SavePatient(handlers, rows) ==
  /\ ~running
  /\ Len(tasks) < handlers
  /\ LET request == savePatient(editing)
     IN /\ request.method = "POST"
           => nextPatient
                + Cardinality({i \in DOMAIN tasks :
                                 tasks[i].pc = "post" /\ tasks[i].status = 0})
                <= rows
        /\ tasks' = Append(tasks,
                           IF request.method = "PUT"
                             THEN Task("update", "put", request.id)
                             ELSE Task("create", "post", NoPatient))
  /\ UNCHANGED <<server, patients, nextPatient, view>>

\* a file is chosen in the Upload input of a displayed row: handleUpload(
\* p._id, file) runs to its await of api.post
HandleUpload(i, handlers, sent) ==
  /\ ~running
  /\ Len(tasks) < handlers
  /\ i \in DOMAIN current(page, patientList, searchTerm)
  /\ nextAttachment
       + Cardinality({k \in DOMAIN tasks : tasks[k].pc = "postAttachment"}) <= sent
  /\ tasks' = Append(tasks,
                     Task("handleUpload", "postAttachment",
                          current(page, patientList, searchTerm)[i]._id))
  /\ UNCHANGED <<server, patients, nextPatient, view>>

\* create, update or remove goes on after its await of api.post, api.put or
\* api.delete: on success the handler calls load(), which sends GET
\* /patients; on failure create() and update() catch and savePatient goes on
\* to setEditing(null), remove() throws and the onConfirm handler ends with it
Mutated(i) ==
  /\ ~running
  /\ i \in DOMAIN tasks
  /\ tasks[i].pc \in {"post", "put", "delete"}
  /\ tasks[i].status # 0
  /\ IF Answered2xx(tasks[i].status)
       THEN /\ tasks' = [tasks EXCEPT ![i].pc = "get", ![i].status = 0]
            /\ UNCHANGED editing
       ELSE /\ tasks' = drop(tasks, i)
            /\ editing' = IF tasks[i].fn \in {"create", "update"} THEN NoPatient
                           ELSE editing
  /\ UNCHANGED <<server, patients, nextPatient, patientList, selectedPatient,
                 searchTerm, page>>

\* handleUpload goes on after its await of api.post
Uploaded(i) ==
  /\ ~running
  /\ i \in DOMAIN tasks
  /\ tasks[i].pc = "postAttachment"
  /\ tasks[i].status # 0
  /\ tasks' = handleUpload(tasks, i, tasks[i].status)
  /\ UNCHANGED <<server, patients, nextPatient, view>>

\* load() goes on after its await of api.get: setPatients(data),
\* setEditing(null), setPage(1); React renders once for all of them (batched)
\* or after each.  When the request failed load() throws: create, update and
\* handleUpload catch, and savePatient goes on to setEditing(null)
Loaded(i, batched) ==
  /\ ~running
  /\ i \in DOMAIN tasks
  /\ tasks[i].pc = "get"
  /\ tasks[i].status # 0
  /\ LET task == tasks[i]
     IN IF Answered2xx(task.status)
          THEN /\ patientList' = task.data
               /\ editing' = IF batched THEN NoPatient ELSE editing
               /\ page' = IF batched THEN 1 ELSE page
               /\ tasks' = IF batched /\ task.fn # "onConfirm" THEN drop(tasks, i)
                            ELSE [tasks EXCEPT ![i].pc =
                                    IF batched THEN "dismiss" ELSE "setEditing"]
          ELSE /\ tasks' = drop(tasks, i)
               /\ editing' = IF task.fn \in {"create", "update"} THEN NoPatient
                              ELSE editing
               /\ UNCHANGED <<patientList, page>>
  /\ UNCHANGED <<server, patients, nextPatient, selectedPatient, searchTerm>>

\* load() goes on after a render: setEditing(null)
SetEditing(i) ==
  /\ i \in DOMAIN tasks
  /\ tasks[i].pc = "setEditing"
  /\ editing' = NoPatient
  /\ tasks' = [tasks EXCEPT ![i].pc = "setPage"]
  /\ UNCHANGED <<server, patients, nextPatient, patientList, selectedPatient,
                 searchTerm, page>>

\* load() goes on after a render: setPage(1), its last statement
SetPage(i) ==
  /\ i \in DOMAIN tasks
  /\ tasks[i].pc = "setPage"
  /\ page' = 1
  /\ tasks' = IF tasks[i].fn = "onConfirm" THEN [tasks EXCEPT ![i].pc = "dismiss"]
               ELSE drop(tasks, i)
  /\ UNCHANGED <<server, patients, nextPatient, patientList, selectedPatient,
                 editing, searchTerm>>

\* onConfirm goes on after remove() returned: setSelectedPatient(null)
Dismiss(i) ==
  /\ i \in DOMAIN tasks
  /\ tasks[i].pc = "dismiss"
  /\ selectedPatient' = NoPatient
  /\ tasks' = drop(tasks, i)
  /\ UNCHANGED <<server, patients, nextPatient, patientList, editing,
                 searchTerm, page>>

(* --------------------------- specification ---------------------------- *)
\* a request arrives, its sender and path parameters drawn from the given
\* sets: the routes that create, fetch and delete a patient
Lifecycle(users, pids) ==
  \E user \in users :
    \/ \E valid \in BOOLEAN : CreatePatient(user, valid, 0)
    \/ \E pid \in pids : GetPatient(user, pid)
    \/ \E pid \in pids : DeletePatient(user, pid, 0)

\* the routes that list and update patients
Records(users, pids) ==
  \E user \in users :
    \/ GetPatients(user, 0)
    \/ \E pid \in pids, valid \in BOOLEAN : UpdatePatient(user, pid, valid, 0)

\* the attachment routes, the request accepted on one of the connections
Attach(slots, users, pids, aids, files) ==
  \E user \in users, pid \in pids :
    \/ \E u \in slots, file \in files, t \in 0 .. MaxTime :
         Upload(u, user, pid, file, t, 0)
    \/ ListAttachments(user, pid)
    \/ \E u \in slots, aid \in aids, db \in {"ok", "findFails"} :
         DeleteAttachment(u, user, pid, aid, db)

\* a suspended handler goes on when what it awaits has settled
Resume(slots) ==
  \/ \E u \in slots, db \in {"ok", "findFails"}, t \in 0 .. MaxTime :
       UploadFound(u, db, t)
  \/ \E u \in slots, db \in {"ok", "saveFails"} : UploadSaved(u, db)
  \/ \E u \in slots, db \in {"ok", "saveFails"} : DeleteSaved(u, db)

Unlinks == \E i \in 1 .. MaxUnlinks, ok \in BOOLEAN : UnlinkDone(i, ok)

\* the file of ordinary size
SmallFile == CHOOSE f \in Files : f.size < fileSize

\* the server with the installed Mongoose sending $push and $pull
InitServer == Init /\ mongoose.save = "delta"

\* the attachment store, driven by administrators whose requests overlap
Next ==
  \/ Lifecycle({"admin"}, 1 .. MaxPatients)
  \/ Attach(1 .. MaxRequests, {"admin"}, 1 .. MaxPatients, 1 .. MaxAttachments,
            {SmallFile})
  \/ Resume(1 .. MaxRequests)
  \/ Unlinks

Spec == InitServer /\ [][Next]_vars

\* the authorization gate, driven by every kind of caller, one request
\* after the other
NextGate ==
  \/ Lifecycle(Users, 1 .. MaxPatients)
  \/ Records(Users, 1 .. MaxPatients)
  \/ Attach({1}, Users, 1 .. MaxPatients, {1}, {SmallFile})
  \/ Resume({1})
  \/ Unlinks

\* the gate stands before the schema and before Mongoose: one of each
InitGate == InitServer /\ patientSchema = "filename" /\ mongoose.remove

SpecGate == InitGate /\ [][NextGate]_vars

\* the appointment routes of both router definitions, driven by every kind
\* of caller
NextAppointments ==
  \E user \in Users, route \in AppointmentRoutes : Appointment(user, route)

SpecAppointments == InitGate /\ [][NextAppointments]_vars

\* the memory router, driven by an administrator with files of every size
NextCap ==
  \/ \E valid \in BOOLEAN : CreatePatient("admin", valid, 0)
  \/ \E u \in 1 .. MaxRequests, pid \in PatientIds, file \in Files \cup {NoFile},
        t \in 0 .. MaxTime : Upload(u, "admin", pid, file, t, 0)
  \/ \E u \in 1 .. MaxRequests, db \in {"ok", "findFails"}, t \in 0 .. MaxTime :
       UploadFound(u, db, t)
  \/ \E u \in 1 .. MaxRequests, db \in {"ok", "saveFails"} : UploadSaved(u, db)

InitCap == InitServer /\ router = "memory"

SpecCap == InitCap /\ [][NextCap]_vars

\* the persistence layer writing the whole array back
InitRace == Init /\ mongoose = [save |-> "document", remove |-> TRUE]

\* uploads by an administrator whose handlers interleave at their awaits
NextRace ==
  \/ \E valid \in BOOLEAN : CreatePatient("admin", valid, 0)
  \/ \E u \in 1 .. MaxRequests, pid \in {1, MaxPatients + 1},
        file \in {SmallFile, NoFile}, t \in 0 .. MaxTime :
       Upload(u, "admin", pid, file, t, 0)
  \/ \E u \in 1 .. MaxRequests, db \in {"ok", "findFails"}, t \in 0 .. MaxTime :
       UploadFound(u, db, t)
  \/ \E u \in 1 .. MaxRequests, db \in {"ok", "saveFails"} : UploadSaved(u, db)

SpecRace == InitRace /\ [][NextRace]_vars

\* the page numbers the pagination buttons can pass to goTo
Pages == 0 .. (MaxRows \div pageSize + 2)

\* the search box and the pagination buttons
Browse ==
  \/ \E term \in SearchTerms : Search(term)
  \/ \E p \in Pages : GoTo(p)

\* the Delete button of the displayed rows at the positions `clicks` and the
\* buttons of the ConfirmModal, with at most `handlers` handlers awaiting a
\* response
Remove(handlers, clicks) ==
  \/ \E i \in clicks : OnDelete(i)
  \/ OnCancel
  \/ OnConfirm(handlers)

\* the Edit button of the displayed rows at the positions `clicks` and the
\* PatientForm, creating patients up to the id `rows`
Form(handlers, rows, clicks) ==
  \/ \E i \in clicks : OnEdit(i)
  \/ SavePatient(handlers, rows)

\* the API serves the Dashboard's requests to list, create and delete
\* patients
Patients ==
  \E k \in DOMAIN tasks, user \in DashUsers :
    \/ GetPatients(user, k)
    \/ CreatePatient(user, TRUE, k)
    \/ DeletePatient(user, tasks[k].id, k)

\* the API serves the Dashboard's updates
Updates ==
  \E k \in DOMAIN tasks, user \in DashUsers :
    UpdatePatient(user, tasks[k].id, TRUE, k)

\* the API serves the Dashboard's uploads, each on one connection and within
\* one tick of the clock, and handleUpload goes on
Uploads ==
  \/ \E k \in DOMAIN tasks, user \in DashUsers :
       Upload(1, user, tasks[k].id, DashFile, now, k)
  \/ UploadFound(1, "ok", now)
  \/ UploadSaved(1, "ok")
  \/ \E i \in DOMAIN tasks : Uploaded(i)

\* the handlers of the page go on when what they await has settled
Continue ==
  \/ \E i \in DOMAIN tasks : Mutated(i)
  \/ \E i \in DOMAIN tasks, batched \in BOOLEAN : Loaded(i, batched)
  \/ \E i \in DOMAIN tasks : SetEditing(i)
  \/ \E i \in DOMAIN tasks : SetPage(i)
  \/ \E i \in DOMAIN tasks : Dismiss(i)

\* the Dashboard of one user against the disk router
InitDash ==
  /\ InitServer
  /\ router = "disk"
  /\ patientSchema = "filename"
  /\ mongoose.remove

\* search and pagination over up to MaxRows patients, created and edited
\* with the form and deleted, the buttons pressed being those of the first
\* row displayed
NextDash ==
  \/ Browse
  \/ Remove(MaxPagingTasks, {1})
  \/ Form(MaxPagingTasks, MaxRows, {1})
  \/ Patients
  \/ Updates
  \/ Continue

SpecDash == InitDash /\ [][NextDash]_vars

\* the confirmation modal with the handlers that create, delete and upload
\* in flight side by side.  PatientTable takes onEdit, onDelete and onUpload
\* and no onViewAttachments: attachmentPatient stays null, the
\* AttachmentsModal never shows a patient, and handleDeleteAttachment is
\* never called
NextModal ==
  \/ Remove(MaxTasks, 1 .. pageSize)
  \/ SavePatient(MaxTasks, MaxModalRows)
  \/ \E i \in 1 .. pageSize : HandleUpload(i, MaxTasks, MaxDashUploads)
  \/ Patients
  \/ Uploads
  \/ Continue

SpecModal == InitDash /\ [][NextModal]_vars

\* the handlers go on whenever they can: a response arrives for every
\* request, a continuation runs once its await has settled
SpecModalLive == SpecModal /\ WF_vars(Patients \/ Uploads \/ Continue)


(* ------------------------------ properties ---------------------------- *)
\* the request reached its route handler
Handled(r) == r.ended = "handler"

\* ids that were issued to a patient that has since been deleted
Deleted == {p \in PatientIds : p < nextPatient /\ p \notin patients}

store == <<patients, attachments, nextPatient, nextAttachment, uploads, unlinks,
           inflight>>

\* the handler on connection u answers in this step
Settles(u) == inflight[u] # Idle /\ inflight'[u] = Idle

\* the step answers a request it has just received, with no await between
Immediate == inflight' = inflight

\* atts holds a sub-document with that _id
Holds(atts, attachmentId) == \E i \in DOMAIN atts : atts[i]._id = attachmentId

\* C1: an upload to a patient id that resolves to no patient responds 404,
\* changes no attachment array and leaves the file multer wrote for it out of
\* uploads/
C1_UploadToMissingPatientStoresNothing ==
  [][(res'.op = "upload" /\ Handled(res') /\ res'.file # NoFile
      /\ res'.pid \notin patients /\ res'.err # "MongoError")
     => /\ res'.status = 404
        /\ attachments' = attachments
        /\ \A u \in DOMAIN inflight :
             (Settles(u) /\ inflight[u].pc = "find")
               => inflight[u].name \notin uploads']_vars

\* C2: deleting an attachment id that matches nothing on an existing patient
\* responds 404 and leaves the array, the files and the pending unlinks
\* alone; the handler goes on to save() only for an id that matched
C2_DeleteUnknownAttachment ==
  [][/\ (res'.op = "deleteAttachment" /\ Handled(res') /\ Immediate
         /\ res'.err # "MongoError" /\ res'.pid \in patients
         /\ ~Holds(attachments[res'.pid], res'.aid))
        => /\ res'.status = 404
           /\ res'.message = "Attachment not found"
           /\ attachments' = attachments
           /\ uploads' = uploads
           /\ unlinks' = unlinks
     /\ \A u \in DOMAIN inflight :
          (inflight[u] = Idle /\ inflight'[u] # Idle
           /\ inflight'[u].op = "deleteAttachment")
            => /\ Holds(attachments[inflight'[u].req.pid], inflight'[u].req.aid)
               /\ unlinks' = Append(unlinks,
                                    id(attachments[inflight'[u].req.pid],
                                       inflight'[u].req.aid).filename)]_vars

C2_Witness ==
  /\ res.op = "deleteAttachment"
  /\ res.status = 404
  /\ res.message = "Attachment not found"
  /\ res.pid \in patients
  /\ attachments[res.pid] # <<>>

\* C3: a successful upload appends one attachment with the request's
\* originalName, mimeType and size at the end of that patient's stored array,
\* keeps what was stored and its order, and changes no other array; a
\* successful list returns the stored array as it is
C3_UploadAppends ==
  [][/\ (res'.op = "upload" /\ res'.status = 201)
        => LET old == attachments[res'.pid]
               new == attachments'[res'.pid]
           IN /\ Len(new) = Len(old) + 1
              /\ SubSeq(new, 1, Len(old)) = old
              /\ new[Len(new)].originalName = res'.file.originalname
              /\ new[Len(new)].mimeType = res'.file.mimetype
              /\ new[Len(new)].size = res'.file.size
              /\ ~Holds(old, new[Len(new)]._id)
              /\ \A q \in Ids \ {res'.pid} : attachments'[q] = attachments[q]
     /\ (res'.op = "listAttachments" /\ res'.status = 200)
        => res'.body = attachments[res'.pid] /\ attachments' = attachments]_vars

C3_Witness ==
  /\ res.op = "upload"
  /\ res.status = 201
  /\ Len(attachments[res.pid]) = 2
  /\ attachments[res.pid][2].originalName = res.file.originalname
  /\ attachments[res.pid][2]._id = lastUpload.aid

\* C4: an upload to a patient without attachments is answered 201 and
\* leaves exactly one entry, with the file's originalName and size; and a
\* delete of the attachment the last upload created, the arrays unchanged
\* since and the database answering, is answered 200 and leaves the
\* patient's array as it was before that upload
C4_UploadThenDelete ==
  [][/\ (res'.op = "upload" /\ res'.status = 201 /\ attachments[res'.pid] = <<>>)
        => /\ Len(attachments'[res'.pid]) = 1
           /\ attachments'[res'.pid][1].originalName = res'.file.originalname
           /\ attachments'[res'.pid][1].size = res'.file.size
     /\ (/\ res'.op = "deleteAttachment"
         /\ Handled(res')
         /\ lastUpload.state = "live"
         /\ res'.pid = lastUpload.pid
         /\ res'.aid = lastUpload.aid
         /\ res'.err # "MongoError")
        => /\ res'.status = 200
           /\ attachments'[res'.pid] = lastUpload.before]_vars

\* C5: deleting an existing attachment of an existing patient removes it,
\* saves the change and responds 200 whatever happens to the file removal,
\* unless the database itself fails
C5_FileRemovalNeverBlocks ==
  [][(res'.op = "deleteAttachment" /\ Handled(res') /\ res'.err # "MongoError"
      /\ res'.pid \in patients)
     => /\ (Immediate /\ Holds(attachments[res'.pid], res'.aid))
           => res'.status = 200
        /\ ~Immediate
           => /\ res'.status = 200
              /\ attachments'[res'.pid] = remove(attachments[res'.pid], res'.aid)]_vars

\* C6: once a patient is deleted its id stays deleted and holds no attachment,
\* and a fetch or an attachment listing for it never succeeds: it responds 404
\* whenever the caller passes the gate and the database answers
C6_DeletedStaysNotFound ==
  [][/\ \A p \in Deleted : p \in Deleted' /\ attachments'[p] = <<>>
     /\ (res'.op \in {"getPatient", "listAttachments"} /\ res'.pid \in Deleted')
        => /\ res'.status # 200
           /\ res'.body = <<>>
           /\ (res'.status \notin {401, 403, 500}) => res'.status = 404]_vars

\* an upload was saving when its patient was deleted, and stored nothing
C6_Witness ==
  /\ res.op = "listAttachments"
  /\ res.pid \in Deleted
  /\ res.status = 404
  /\ res.message = "Patient not found"
  /\ nextAttachment > 1
  /\ uploads # {}

\* the allow-list of each role-gated patient and attachment route
Allowed(op) ==
  CASE op \in {"createPatient", "updatePatient"} -> {"admin", "receptionist"}
    [] op = "deletePatient" -> {"admin"}
    [] op \in {"upload", "listAttachments"} -> {"admin", "dentist", "receptionist"}
    [] op = "deleteAttachment" -> {"admin", "dentist"}

Gated ==
  {"createPatient", "updatePatient", "deletePatient", "upload",
   "listAttachments", "deleteAttachment"}

\* the handlers that start in this step: the connections that take a request
Started == {u \in DOMAIN inflight : inflight[u] = Idle /\ inflight'[u] # Idle}

\* C7: on every role-gated route multer and the handler run exactly for the
\* roles of the route's allow-list; any other authenticated role is answered
\* 403 and nothing changes
C7_RoleGate ==
  [][/\ (res'.op \in Gated /\ res'.ended # "none")
        => /\ res'.ended \in {"upload", "handler"} <=> res'.user \in Allowed(res'.op)
           /\ (res'.user \notin Allowed(res'.op) /\ res'.user # NoUser)
              => /\ res'.status = 403
                 /\ store' = store
                 /\ lastUpload' = lastUpload /\ now' = now
     /\ \A u \in Started : inflight'[u].req.user \in Allowed(inflight'[u].op)]_vars

C7_Witness ==
  /\ res.op = "deleteAttachment"
  /\ res.user = "receptionist"
  /\ res.status = 403
  /\ res.pid \in patients
  /\ Holds(attachments[res.pid], res.aid)

\* C8: protect runs first and requireRole second: an anonymous request is
\* answered 401, and a request answered 401 or 403 has run neither multer nor
\* a handler, so no file is written or buffered and nothing changes
C8_GateBeforeEverything ==
  [][/\ (res'.op \in Routes /\ res'.ended # "none")
        => /\ res'.user = NoUser <=> res'.status = 401
           /\ res'.status = 401 <=> res'.ended = "protect"
           /\ res'.status = 403 <=> res'.ended = "requireRole"
           /\ res'.status \in {401, 403}
              => /\ res'.multer = "skipped"
                 /\ store' = store
                 /\ lastUpload' = lastUpload /\ now' = now
     /\ \A u \in Started : inflight'[u].req.user # NoUser
     /\ uploads' # uploads
          => \/ \E u \in Started : inflight'[u].req.user \in Allowed("upload")
             \/ res'.op = "unlink"]_vars

C8_Witness ==
  /\ res.op = "upload"
  /\ res.file # NoFile
  /\ res.status = 403
  /\ res.pid \in patients
  /\ router = "disk"
  /\ uploads = {}

\* C9: on the memory router an upload without a file part is answered 400
\* before the patient is looked up and changes nothing, whether or not the
\* patient exists
C9_NoFileIsBadRequest ==
  [][/\ (res'.op = "upload" /\ router = "memory" /\ Handled(res')
         /\ res'.file = NoFile)
        => /\ res'.status = 400
           /\ res'.message = "No file uploaded"
           /\ store' = store
           /\ lastUpload' = lastUpload
     /\ router = "memory"
        => \A u \in Started : inflight'[u].req.file # NoFile]_vars

C9_Witness ==
  /\ router = "memory"
  /\ res.op = "upload"
  /\ res.file = NoFile
  /\ res.status = 400
  /\ res.pid \notin patients

TenMB == 10 * 1024 * 1024

\* what the memory router does with an upload whose file has the given
\* sizes: refused by multer with LIMIT_FILE_SIZE, nothing stored
Refused(sizes) ==
  (res'.op = "upload" /\ router = "memory" /\ res'.file # NoFile
   /\ res'.ended \in {"upload", "handler"} /\ res'.file.size \in sizes)
  => /\ res'.ended = "upload"
     /\ res'.err = "MulterError"
     /\ res'.message = "LIMIT_FILE_SIZE"
     /\ res'.status \notin {200, 201}
     /\ store' = store

\* stored as one more attachment of the patient, when the patient exists and
\* the database answers
Accepted(sizes) ==
  (res'.op = "upload" /\ router = "memory" /\ res'.file # NoFile
   /\ res'.ended \in {"upload", "handler"} /\ res'.file.size \in sizes
   /\ res'.pid \in patients /\ res'.err # "MongoError")
  => /\ res'.status = 201
     /\ Len(attachments'[res'.pid]) = Len(attachments[res'.pid]) + 1

\* no attachment above 10 MB is stored or on its way to be
Capped ==
  router = "memory"
    => /\ \A u \in Started : inflight'[u].req.file.size <= TenMB
       /\ \A p \in Ids : \A i \in DOMAIN attachments'[p] :
            attachments'[p][i].size <= TenMB

Sizes == {file.size : file \in Files}

C11_LastSaveWins ==
  [][(res'.op = "upload" /\ res'.status = 201 /\ mongoose.save = "document")
     => \E u \in DOMAIN inflight :
          /\ Settles(u)
          /\ attachments'[res'.pid] = push(inflight[u].copy, inflight[u].doc)
          /\ attachments'[res'.pid] = res'.body
          /\ \A a \in Range(attachments[res'.pid]) :
               a \in Range(attachments'[res'.pid]) <=> a \in Range(inflight[u].copy)]_vars

\* both uploads were answered 201 and the stored array holds one of the two
C11_Witness ==
  /\ mongoose.save = "document"
  /\ res.op = "upload"
  /\ res.status = 201
  /\ lastUpload.pid = res.pid
  /\ lastUpload.before # <<>>
  /\ Len(attachments[res.pid]) = 1
  /\ lastUpload.before[1] \notin Range(attachments[res.pid])

\* C12: every stored attachment carries exactly one of a disk filename and
\* an inline payload, never both and never neither
C12_ExactlyOnePayload ==
  \A p \in Ids : \A i \in DOMAIN attachments[p] :
    (attachments[p][i].filename # NoValue) # (attachments[p][i].data # NoValue)

\* C16: with the disk storage and the schema that declares filename, every
\* stored attachment names a file present in uploads/, also after a delete
\* whose save failed
C16_RecordsReferenceFiles ==
  (storage(router) = "disk" /\ patientSchema = "filename")
    => \A p \in Ids : \A i \in DOMAIN attachments[p] :
         attachments[p][i].filename \in uploads

\* the same route in the other definition of the appointment router
twin(route) ==
  CASE route = "getAppointments" -> "getAppointments2"
    [] route = "createAppointment" -> "createAppointment2"
    [] route = "updateAppointment" -> "updateAppointment2"
    [] route = "deleteAppointment" -> "deleteAppointment2"
    [] route = "getAppointments2" -> "getAppointments"
    [] route = "createAppointment2" -> "createAppointment"
    [] route = "updateAppointment2" -> "updateAppointment"
    [] route = "deleteAppointment2" -> "deleteAppointment"

\* C13: an anonymous appointment request is answered 401 on every route;
\* create and update run their controller exactly for admin, dentist and
\* receptionist, delete exactly for admin and dentist; and for each of the
\* three roles a route of one router definition runs its controller exactly
\* when the same route of the other definition does
C13_AppointmentGate ==
  [][res'.op \in AppointmentRoutes
     => /\ res'.user = NoUser <=> res'.status = 401
        /\ res'.user = NoUser => ~Handled(res')
        /\ res'.op \in {"createAppointment", "updateAppointment",
                         "createAppointment2", "updateAppointment2"}
           => (Handled(res') <=> res'.user \in {"admin", "dentist", "receptionist"})
        /\ res'.op \in {"deleteAppointment", "deleteAppointment2"}
           => (Handled(res') <=> res'.user \in {"admin", "dentist"})
        /\ res'.user \in Roles
           => (Handled(res')
               <=> ended(dispatch(router, stack(twin(res'.op)), twin(res'.op),
                                  Request(res'.user, 0, 0, NoFile))) = "handler")
        /\ ~Handled(res') => res'.status \in {401, 403}]_vars

C13_Witness ==
  /\ res.op = "deleteAppointment"
  /\ res.user = "receptionist"
  /\ res.status = 403
  /\ res.ended = "requireRole"

\* the handlers awaiting api.delete of patient x, its response taken up by
\* none of them yet
Deleting(ts, x) ==
  Cardinality({i \in DOMAIN ts : ts[i].pc = "delete" /\ ts[i].id = x})

\* the ids of the rows the table displays
Displayed ==
  {current(page, patientList, searchTerm)[i]._id :
     i \in DOMAIN current(page, patientList, searchTerm)}

\* C14: a DELETE /patients/:id request is sent only for the id that is
\* selected at that moment, never while nothing is selected; an id becomes
\* selected only by the Delete button of a displayed row, which sends
\* nothing; and Cancel clears the selection and sends nothing
C14_DeleteOnlyConfirmed ==
  [][/\ \A x \in 0 .. MaxRows :
          Deleting(tasks', x) > Deleting(tasks, x)
            => /\ x # NoPatient
               /\ selectedPatient = x
               /\ Deleting(tasks', x) = Deleting(tasks, x) + 1
     /\ selectedPatient' \notin {selectedPatient, NoPatient}
          => selectedPatient' \in Displayed /\ tasks' = tasks
     /\ OnCancel => selectedPatient' = NoPatient /\ tasks' = tasks]_vars

\* the user confirmed twice: two delete requests for the selected patient
C14_Witness ==
  /\ selectedPatient # NoPatient
  /\ selectedPatient \in patients
  /\ Deleting(tasks, selectedPatient) = 2

\* a well-formed page: n filtered rows f, tp pages, page sp displayed, cur
\* the displayed slice
WellPaged(f, n, tp, sp, cur) ==
  /\ 1 <= sp /\ sp <= tp
  /\ IF n = 0 THEN tp = 1 ELSE (tp - 1) * 5 < n /\ n <= tp * 5
  /\ Len(cur) <= 5
  /\ n > 0 => Len(cur) > 0
  /\ cur = SubSeq(f, (sp - 1) * 5 + 1, (sp - 1) * 5 + Len(cur))

\* the page state of the Dashboard as rendered
Paging ==
  WellPaged(filtered(patientList, searchTerm),
            Len(filtered(patientList, searchTerm)),
            totalPages(patientList, searchTerm),
            safePage(page, patientList, searchTerm),
            current(page, patientList, searchTerm))

\* C15: the displayed page is within 1..totalPages and its slice holds at
\* most 5 rows of the filtered list, at least one when there is any; goTo
\* with a page outside 1..totalPages leaves the page unchanged; a change of
\* the search term and every completed load set the page to 1
C15_Pagination ==
  /\ []Paging
  /\ [][/\ page' # page
             => \/ page' = 1
                \/ /\ 1 <= page' /\ page' <= totalPages(patientList, searchTerm)
                   /\ UNCHANGED <<patientList, searchTerm>>
        /\ searchTerm' # searchTerm => page' = 1
        /\ patientList' # patientList => (page' = 1 \/ running')
        /\ running /\ ~running' => page' = 1]_vars

\* a load has shrunk the list under the page the user was on
C15_Witness ==
  /\ page = 2
  /\ totalPages(patientList, searchTerm) = 1
  /\ Len(patientList) = 5
  /\ safePage(page, patientList, searchTerm) = 1

\* C17: once a confirmation is being handled the modal is eventually
\* dismissed
C17_ConfirmEventuallyDismisses ==
  (\E i \in DOMAIN tasks : tasks[i].fn = "onConfirm")
    ~> (selectedPatient = NoPatient)

====
